---- MODULE Spec2Model ----
(***************************************************************************)
(* A model of the graph-algs crate: the index-based graph store            *)
(* (src/graph.rs), the breadth-first iterator (src/bfs.rs) and the         *)
(* depth-first iterator (src/dfs.rs).                                      *)
(*                                                                         *)
(* NodeIndex and EdgeIndex are the zero-based usize they wrap; a Vec is a  *)
(* sequence whose element i is At(vec, i); Option<X> is <<>> for None and  *)
(* <<x>> for Some(x).  A panic (index out of bounds) aborts the program:   *)
(* it sets fault and no operation runs afterwards.                         *)
(***************************************************************************)
EXTENDS Integers, Sequences, FiniteSets, TLC

\* Bounds of the model.
MaxNodes == 3
MaxEdges == 3
MaxValueEdges == 2

\* The values callers store in nodes, and the indices callers pass in: every
\* index a graph of at most MaxNodes nodes can issue, so that an index can be
\* one the graph has not issued (yet).
Values == {10, 20}
Unit == {10}
BuilderValues == {10, 20, 30}
NodeIdx == 0 .. (MaxNodes - 1)

VARIABLES
    nodes,      \* Graph.nodes : Vec<Node<T>>
    edges,      \* Graph.edges : Vec<Edge>
    nodeLog,    \* history: one record per add_node call, in call order
    edgeLog,    \* history: one record per add_edge call that returned
    ret,        \* the last call of the graph store's API and what it returned
    fault,      \* TRUE once a call has panicked
    pc,         \* "build", or the traversal that borrows the graph
    source,     \* the traversal's source
    visited,    \* Bfs.visited / Dfs.visited : Vec<bool>
    queue,      \* Bfs.queue : VecDeque<HashSet<NodeIndex>>
    stack,      \* Dfs.stack : Vec<NodeIndex>
    emitted,    \* history: the items the traversal's pulls returned
    done,       \* TRUE once a pull has returned None
    discards,   \* history: visited nodes popped and dropped by Dfs::next
    input       \* history: the values and the pairs given to find-or-add

vars == <<nodes, edges, nodeLog, edgeLog, ret, fault, pc, source, visited,
          queue, stack, emitted, done, discards, input>>

graphVars == <<nodes, edges, nodeLog, edgeLog>>
travVars == <<pc, source, visited, queue, stack, emitted, done, discards>>

----------------------------------------------------------------------------
\* Vec and Option

None == <<>>
Some(x) == <<x>>
At(vec, i) == vec[i + 1]
InBounds(vec, i) == i >= 0 /\ i < Len(vec)

Node(value, first) == [value |-> value, first_outgoing_edge |-> first]
Edge(target, next) == [target |-> target, next_outgoing_edge |-> next]

----------------------------------------------------------------------------
\* Graph::add_node: the index is the length before the push.

\* Faulty variant: the index is taken after the push.
add_node_returns_len_after(ns, value) ==
    [nodes |-> Append(ns, Node(value, None)), index |-> Len(ns) + 1]

\* Faulty variant: the node is inserted at the front, shifting the others.
add_node_inserts_front(ns, value) ==
    [nodes |-> <<Node(value, None)>> \o ns, index |-> Len(ns)]

add_node(ns, value) ==
    [nodes |-> Append(ns, Node(value, None)), index |-> Len(ns)]

\* Faulty variant of add_edge: the edge is pushed before self.nodes[source.0]
\* is evaluated.
add_edge_pushes_first(ns, es, src, target) ==
    IF ~InBounds(ns, src)
    THEN [panic |-> TRUE, nodes |-> ns,
          edges |-> Append(es, Edge(target, None)), index |-> None]
    ELSE [panic |-> FALSE,
          nodes |-> [ns EXCEPT ![src + 1].first_outgoing_edge = Some(Len(es))],
          edges |-> Append(es, Edge(target, At(ns, src).first_outgoing_edge)),
          index |-> Some(Len(es))]

\* Faulty variant of add_edge: the new edge is not linked to the old head.
add_edge_forgets_head(ns, es, src, target) ==
    IF ~InBounds(ns, src)
    THEN [panic |-> TRUE, nodes |-> ns, edges |-> es, index |-> None]
    ELSE [panic |-> FALSE,
          nodes |-> [ns EXCEPT ![src + 1].first_outgoing_edge = Some(Len(es))],
          edges |-> Append(es, Edge(target, None)),
          index |-> Some(Len(es))]

\* Faulty variant of add_edge: the new edge is linked to the edge pushed
\* before it, whichever node that one belongs to.
add_edge_links_previous(ns, es, src, target) ==
    IF ~InBounds(ns, src)
    THEN [panic |-> TRUE, nodes |-> ns, edges |-> es, index |-> None]
    ELSE [panic |-> FALSE,
          nodes |-> [ns EXCEPT ![src + 1].first_outgoing_edge = Some(Len(es))],
          edges |-> Append(es, Edge(target, IF es = <<>> THEN None
                                            ELSE Some(Len(es) - 1))),
          index |-> Some(Len(es))]

\* Variant of add_edge that bounds-checks target as well.
add_edge_checks_target(ns, es, src, target) ==
    IF ~InBounds(ns, src) \/ ~InBounds(ns, target)
    THEN [panic |-> TRUE, nodes |-> ns, edges |-> es, index |-> None]
    ELSE [panic |-> FALSE,
          nodes |-> [ns EXCEPT ![src + 1].first_outgoing_edge = Some(Len(es))],
          edges |-> Append(es, Edge(target, At(ns, src).first_outgoing_edge)),
          index |-> Some(Len(es))]

\* Graph::add_edge.  self.nodes[source.0] is evaluated before anything is
\* written, so an invalid source panics with the graph untouched; target is
\* stored as given.
add_edge(ns, es, src, target) ==
    IF ~InBounds(ns, src)
    THEN [panic |-> TRUE, nodes |-> ns, edges |-> es, index |-> None]
    ELSE [panic |-> FALSE,
          nodes |-> [ns EXCEPT ![src + 1].first_outgoing_edge = Some(Len(es))],
          edges |-> Append(es, Edge(target, At(ns, src).first_outgoing_edge)),
          index |-> Some(Len(es))]

\* Graph::nodes and Graph::edges, collected.
nodes_iter(ns) == [i \in 1 .. Len(ns) |-> <<i - 1, ns[i].value>>]
edges_iter(es) == [i \in 1 .. Len(es) |-> i - 1]

\* Graph::node_value, for an index in bounds.
node_value(ns, index) == At(ns, index).value

\* Graph::find_node: find_map over nodes.iter().enumerate(), from index 0.
RECURSIVE find_from(_, _, _)
find_from(ns, value, index) ==
    IF index >= Len(ns) THEN None
    ELSE IF At(ns, index).value = value THEN Some(index)
    ELSE find_from(ns, value, index + 1)

\* Faulty variant of find_node: the scan runs from the last node down.
RECURSIVE rfind_from(_, _, _)
rfind_from(ns, value, index) ==
    IF index < 0 THEN None
    ELSE IF At(ns, index).value = value THEN Some(index)
    ELSE rfind_from(ns, value, index - 1)

find_node_last(ns, value) == rfind_from(ns, value, Len(ns) - 1)

find_node(ns, value) == find_from(ns, value, 0)

\* Faulty variant of find-or-add: a node is added whatever find_node returns.
find_or_add_always_adds(ns, value) == add_node(ns, value)

\* graph.find_node(&value).unwrap_or_else(|| graph.add_node(value)), the step
\* of FromIterator::from_iter and of the graph! macro for each endpoint.
find_or_add(ns, value) ==
    LET found == find_node(ns, value)
    IN IF found # None THEN [nodes |-> ns, index |-> found[1]]
       ELSE add_node(ns, value)

\* Faulty variant of Successors::next: the walk goes on to the preceding edge
\* of the array instead of following next_outgoing_edge.
successors_next_by_index(es, current_edge_index) ==
    IF current_edge_index = None THEN [item |-> None, current |-> None]
    ELSE LET edge == At(es, current_edge_index[1])
         IN [item |-> Some(edge.target),
             current |-> IF current_edge_index[1] = 0 THEN None
                         ELSE Some(current_edge_index[1] - 1)]

\* Successors::next: the item and the iterator's next current_edge_index.
successors_next(es, current_edge_index) ==
    IF current_edge_index = None THEN [item |-> None, current |-> None]
    ELSE LET edge == At(es, current_edge_index[1])
         IN [item |-> Some(edge.target), current |-> edge.next_outgoing_edge]

\* The items a Successors iterator yields until next() returns None.
RECURSIVE drain(_, _)
drain(es, current_edge_index) ==
    LET step == successors_next(es, current_edge_index)
    IN IF step.item = None THEN <<>>
       ELSE <<step.item[1]>> \o drain(es, step.current)

\* Graph::successors, for a source in bounds, collected.
successors(ns, es, src) == drain(es, At(ns, src).first_outgoing_edge)

\* Successors::size_hint: (0, Some(self.graph.nodes.len() - 1)).  A Successors
\* exists only for a source in bounds, so nodes.len() >= 1 and the usize
\* subtraction does not underflow.
successors_size_hint(ns) == [lower |-> 0, upper |-> Some(Len(ns) - 1)]

----------------------------------------------------------------------------
\* The graph store's operations

Call(op, arg, val) == [op |-> op, arg |-> arg, val |-> val]

Init ==
    /\ nodes = <<>>
    /\ edges = <<>>
    /\ nodeLog = <<>>
    /\ edgeLog = <<>>
    /\ ret = Call("new", <<>>, <<>>)
    /\ fault = FALSE
    /\ pc = "build"
    /\ source = 0
    /\ visited = <<>>
    /\ queue = <<>>
    /\ stack = <<>>
    /\ emitted = <<>>
    /\ done = FALSE
    /\ discards = 0
    /\ input = [asked |-> {}, pairs |-> <<>>]

Building == pc = "build" /\ ~fault

AddNode(value) ==
    /\ Building
    /\ Len(nodes) < MaxNodes
    /\ LET r == add_node(nodes, value)
       IN /\ nodes' = r.nodes
          /\ nodeLog' = Append(nodeLog, [value |-> value, index |-> r.index])
          /\ ret' = Call("add_node", <<value>>, <<r.index>>)
    /\ UNCHANGED <<edges, edgeLog, fault>>
    /\ UNCHANGED <<travVars, input>>

AddEdge(src, target) ==
    /\ Building
    /\ LET r == add_edge(nodes, edges, src, target)
       IN /\ nodes' = r.nodes
          /\ edges' = r.edges
          /\ fault' = r.panic
          /\ ret' = Call("add_edge", <<src, target>>, r.index)
          /\ edgeLog' = IF r.panic THEN edgeLog
                        ELSE Append(edgeLog,
                                    [source |-> src, target |-> target,
                                     index |-> r.index[1],
                                     edge |-> At(r.edges, r.index[1])])
    /\ UNCHANGED nodeLog
    /\ UNCHANGED <<travVars, input>>

FindNode(value) ==
    /\ Building
    /\ ret' = Call("find_node", <<value>>, find_node(nodes, value))
    /\ UNCHANGED <<graphVars, fault>>
    /\ UNCHANGED <<travVars, input>>

Successors(src) ==
    /\ Building
    /\ IF InBounds(nodes, src)
       THEN /\ ret' = Call("successors", <<src>>, successors(nodes, edges, src))
            /\ UNCHANGED fault
       ELSE /\ ret' = Call("successors", <<src>>, <<>>)
            /\ fault' = TRUE
    /\ UNCHANGED graphVars
    /\ UNCHANGED <<travVars, input>>

\* nodeLog after a find-or-add that took the graph from before to after.
LogIfAdded(log, before, after, value) ==
    IF Len(after.nodes) = Len(before) THEN log
    ELSE Append(log, [value |-> value, index |-> after.index])

\* One find-or-add of a value, as in test_add_multiple_nodes.
FindOrAdd(value) ==
    /\ Building
    /\ LET r == find_or_add(nodes, value)
       IN /\ nodes' = r.nodes
          /\ nodeLog' = LogIfAdded(nodeLog, nodes, r, value)
          /\ ret' = Call("find_or_add", <<value>>, <<r.index>>)
    /\ input' = [input EXCEPT !.asked = @ \cup {value}]
    /\ UNCHANGED <<edges, edgeLog, fault>>
    /\ UNCHANGED travVars

\* One iteration of the loop of FromIterator::from_iter (and one `x -> y` of
\* the graph! macro): find-or-add both endpoints, then add_edge.
FromIterStep(x, y) ==
    /\ Building
    /\ LET s == find_or_add(nodes, x)
           t == find_or_add(s.nodes, y)
           r == add_edge(t.nodes, edges, s.index, t.index)
       IN /\ nodes' = r.nodes
          /\ edges' = r.edges
          /\ fault' = r.panic
          /\ ret' = Call("from_iter", <<x, y>>, r.index)
          /\ nodeLog' = LogIfAdded(LogIfAdded(nodeLog, nodes, s, x),
                                   s.nodes, t, y)
          /\ edgeLog' = IF r.panic THEN edgeLog
                        ELSE Append(edgeLog,
                                    [source |-> s.index, target |-> t.index,
                                     index |-> r.index[1],
                                     edge |-> At(r.edges, r.index[1])])
    /\ input' = [input EXCEPT !.pairs = Append(@, <<x, y>>)]
    /\ UNCHANGED travVars

----------------------------------------------------------------------------
\* Graph::bfs and Bfs

\* self.nodes.iter().map(|_| false).collect()
AllFalse(ns) == [i \in 1 .. Len(ns) |-> FALSE]

bfs(ns, src) == [visited |-> AllFalse(ns), queue |-> <<{src}>>]

\* Bfs::is_visited, for a node in bounds.
bfs_is_visited(vis, node) == vis[node + 1]

\* Faulty variant: Bfs::visit does not set the flag.
bfs_visit_all_forgets(vis, set) == vis

\* visited after Bfs::visit has run on every node of the set.
bfs_visit_all(vis, set) == [i \in 1 .. Len(vis) |-> vis[i] \/ (i - 1) \in set]

\* next after the loop of Bfs::next: the successors of every node of the set.
bfs_extend(ns, es, set) ==
    UNION {{succ[k] : k \in 1 .. Len(succ)} :
           succ \in {successors(ns, es, node) : node \in set}}

\* Faulty variant of the retain: it reads the flags as they were before the
\* dequeued set was marked.
bfs_retain_before_marking(vis, marked, next) ==
    {n \in next : ~bfs_is_visited(vis, n)}

\* next.retain(|&next| !self.is_visited(next)), every element in bounds.
bfs_retain(vis, marked, next) == {n \in next : ~bfs_is_visited(marked, n)}

\* Faulty variant: next is pushed even when it is empty.
bfs_push_always(q, next) == Append(q, next)

\* if !next.is_empty() { self.queue.push_back(next) }
bfs_push(q, next) == IF next # {} THEN Append(q, next) ELSE q

\* Faulty variant: popping an empty queue leaves an empty set behind.
pop_front_leaves_set(q) ==
    IF q = <<>>
    THEN [item |-> None, rest |-> <<{}>>]
    ELSE [item |-> Some(Head(q)), rest |-> Tail(q)]

\* self.queue.pop_front(): the front set and the queue without it, or None
\* and the queue as it was.
pop_front(q) ==
    IF q = <<>>
    THEN [item |-> None, rest |-> q]
    ELSE [item |-> Some(Head(q)), rest |-> Tail(q)]

\* Bfs::next.  visited[node.0] panics in visit for a node out of bounds (only
\* the source can be one) and in retain for a successor out of bounds.
bfs_next(ns, es, vis, q) ==
    IF pop_front(q).item = None
    THEN [panic |-> FALSE, item |-> None, visited |-> vis,
          queue |-> pop_front(q).rest]
    ELSE LET set == pop_front(q).item[1]
             rest == pop_front(q).rest
         IN IF \E node \in set : ~InBounds(vis, node)
            THEN [panic |-> TRUE, item |-> None, visited |-> vis, queue |-> rest]
            ELSE LET marked == bfs_visit_all(vis, set)
                     next == bfs_extend(ns, es, set)
                 IN IF \E n \in next : ~InBounds(marked, n)
                    THEN [panic |-> TRUE, item |-> None, visited |-> marked,
                          queue |-> rest]
                    ELSE [panic |-> FALSE, item |-> Some(set),
                          visited |-> marked,
                          queue |-> bfs_push(rest, bfs_retain(vis, marked, next))]

\* Bfs::size_hint: (0, Some(self.graph.nodes().len())).
bfs_size_hint(ns) == [lower |-> 0, upper |-> Some(Len(nodes_iter(ns)))]

----------------------------------------------------------------------------
\* Graph::dfs and Dfs

dfs(ns, src) == [visited |-> AllFalse(ns), stack |-> <<src>>]

\* Faulty variant of Dfs::visit: the successors are pushed in the reverse of
\* the enumeration order.
dfs_visit_pushes_reversed(ns, es, vis, st, node) ==
    LET succ == successors(ns, es, node)
    IN [visited |-> [vis EXCEPT ![node + 1] = TRUE],
        stack |-> st \o [k \in 1 .. Len(succ) |-> succ[Len(succ) + 1 - k]]]

\* Dfs::visit: mark, then push every successor in enumeration order.
dfs_visit(ns, es, vis, st, node) ==
    [visited |-> [vis EXCEPT ![node + 1] = TRUE],
     stack |-> st \o successors(ns, es, node)]

\* Faulty variant: a visited node is not dropped.
dfs_skip_never(vis, node) == FALSE

\* The guard of the arm of Dfs::next that drops a visited node.
dfs_skip(vis, node) == vis[node + 1]

\* Dfs::next: pop until an unvisited node; visited[node.0] panics for a
\* popped node that is out of bounds.
RECURSIVE dfs_next(_, _, _, _, _)
dfs_next(ns, es, vis, st, dropped) ==
    IF st = <<>>
    THEN [panic |-> FALSE, item |-> None, visited |-> vis, stack |-> st,
          dropped |-> dropped]
    ELSE LET node == st[Len(st)]
             rest == SubSeq(st, 1, Len(st) - 1)
         IN IF ~InBounds(vis, node)
            THEN [panic |-> TRUE, item |-> None, visited |-> vis,
                  stack |-> rest, dropped |-> dropped]
            ELSE IF dfs_skip(vis, node)
            THEN dfs_next(ns, es, vis, rest, dropped + 1)
            ELSE LET v == dfs_visit(ns, es, vis, rest, node)
                 IN [panic |-> FALSE, item |-> Some(node),
                     visited |-> v.visited, stack |-> v.stack,
                     dropped |-> dropped]

\* Faulty variant: the bound leaves one node out, as Successors::size_hint does.
dfs_size_hint_one_less(ns) ==
    [lower |-> 0, upper |-> Some(Len(nodes_iter(ns)) - 1)]

\* Dfs::size_hint: (0, Some(self.graph.nodes().len())).
dfs_size_hint(ns) == [lower |-> 0, upper |-> Some(Len(nodes_iter(ns)))]

----------------------------------------------------------------------------
\* The traversals' operations.  A traversal borrows the graph, so nothing is
\* added while one is alive.

StartBfs(src) ==
    /\ Building
    /\ LET b == bfs(nodes, src)
       IN /\ visited' = b.visited
          /\ queue' = b.queue
    /\ pc' = "bfs"
    /\ source' = src
    /\ ret' = Call("bfs", <<src>>, <<>>)
    /\ UNCHANGED <<graphVars, fault, stack, emitted, done, discards, input>>

BfsNext ==
    /\ pc = "bfs"
    /\ ~fault
    /\ LET r == bfs_next(nodes, edges, visited, queue)
       IN /\ visited' = r.visited
          /\ queue' = r.queue
          /\ fault' = r.panic
          /\ emitted' = IF r.item = None THEN emitted
                        ELSE Append(emitted, r.item[1])
          /\ done' = (done \/ (~r.panic /\ r.item = None))
    /\ UNCHANGED <<graphVars, ret, pc, source, stack, discards, input>>

StartDfs(src) ==
    /\ Building
    /\ LET d == dfs(nodes, src)
       IN /\ visited' = d.visited
          /\ stack' = d.stack
    /\ pc' = "dfs"
    /\ source' = src
    /\ ret' = Call("dfs", <<src>>, <<>>)
    /\ UNCHANGED <<graphVars, fault, queue, emitted, done, discards, input>>

DfsNext ==
    /\ pc = "dfs"
    /\ ~fault
    /\ LET r == dfs_next(nodes, edges, visited, stack, 0)
       IN /\ visited' = r.visited
          /\ stack' = r.stack
          /\ fault' = r.panic
          /\ emitted' = IF r.item = None THEN emitted
                        ELSE Append(emitted, r.item[1])
          /\ done' = (done \/ (~r.panic /\ r.item = None))
          /\ discards' = discards + r.dropped
    /\ UNCHANGED <<graphVars, ret, pc, source, queue, input>>

----------------------------------------------------------------------------
\* The specifications

\* The store with node values.
NextStore ==
    \/ \E value \in Values : AddNode(value)
    \/ /\ Len(edges) < MaxValueEdges
       /\ \E src \in NodeIdx, target \in NodeIdx : AddEdge(src, target)
    \/ \E value \in Values : FindNode(value)

SpecStore == Init /\ [][NextStore]_vars

\* Graphs built by find-or-add alone.
NextBuilder ==
    \/ \E value \in BuilderValues : FindOrAdd(value)
    \/ /\ Len(edges) < MaxEdges
       /\ \E x \in BuilderValues, y \in BuilderValues : FromIterStep(x, y)

SpecBuilder == Init /\ [][NextBuilder]_vars

\* Building a graph whose node values nothing reads: the edge lists and the
\* traversals never look at a node's value.
Build ==
    \/ \E value \in Unit : AddNode(value)
    \/ /\ Len(edges) < MaxEdges
       /\ \E src \in NodeIdx, target \in NodeIdx : AddEdge(src, target)

\* The edge lists.
NextEdges ==
    \/ Build
    \/ \E src \in NodeIdx : Successors(src)

SpecEdges == Init /\ [][NextEdges]_vars

\* A breadth-first traversal of a graph.
NextBfs ==
    \/ Build
    \/ \E src \in NodeIdx : StartBfs(src)
    \/ BfsNext

SpecBfs == Init /\ [][NextBfs]_vars

\* A depth-first traversal of a graph.
NextDfs ==
    \/ Build
    \/ \E src \in NodeIdx : StartDfs(src)
    \/ DfsNext

SpecDfs == Init /\ [][NextDfs]_vars

\* Every operation on a graph whose node values nothing reads.
Next ==
    \/ Build
    \/ \E src \in NodeIdx : Successors(src)
    \/ \E src \in NodeIdx : StartBfs(src)
    \/ BfsNext
    \/ \E src \in NodeIdx : StartDfs(src)
    \/ DfsNext

Spec == Init /\ [][Next]_vars

----------------------------------------------------------------------------
\* The graph the calls describe: an edge per add_edge call that returned.

EdgeRel == {<<edgeLog[k].source, edgeLog[k].target>> : k \in 1 .. Len(edgeLog)}

Succ(S) == {e[2] : e \in {x \in EdgeRel : x[1] \in S}}

\* The nodes reachable from S.
RECURSIVE Closure(_)
Closure(S) == IF Succ(S) \subseteq S THEN S ELSE Closure(S \cup Succ(S))

\* The nodes reachable from S on paths that avoid u.
RECURSIVE ClosureAvoiding(_, _)
ClosureAvoiding(S, u) ==
    LET N == (S \cup Succ(S)) \ {u}
    IN IF N = S THEN S ELSE ClosureAvoiding(N, u)

\* The nodes with a path of at most k edges from s, and those whose shortest
\* path from s has exactly k edges.
RECURSIVE Within(_, _)
Within(s, k) ==
    IF k = 0 THEN {s}
    ELSE LET W == Within(s, k - 1) IN W \cup Succ(W)

AtDistance(s, k) == IF k = 0 THEN {s} ELSE Within(s, k) \ Within(s, k - 1)

\* Every path from the source to v passes through u.
Dominates(u, v) == v \notin ClosureAvoiding({source} \ {u}, u)

\* The targets of the add_edge calls with source n, latest call first.
RECURSIVE TargetsLatestFirst(_, _)
TargetsLatestFirst(n, k) ==
    IF k = 0 THEN <<>>
    ELSE IF edgeLog[k].source = n
         THEN <<edgeLog[k].target>> \o TargetsLatestFirst(n, k - 1)
         ELSE TargetsLatestFirst(n, k - 1)

EmittedSet == {emitted[k] : k \in 1 .. Len(emitted)}

\* The traversal was started from a node of the graph, and every edge of the
\* graph targets a node of the graph.
WellFormed ==
    /\ InBounds(nodes, source)
    /\ \A k \in 1 .. Len(edgeLog) : InBounds(nodes, edgeLog[k].target)

----------------------------------------------------------------------------
\* C1: the k-th set a breadth-first traversal returns (k = 0, 1, ...) is
\* exactly the set of nodes whose shortest path from the source has k edges.
BfsLayering ==
    pc = "bfs" =>
        \A k \in 1 .. Len(emitted) : emitted[k] = AtDistance(source, k - 1)

\* A finished traversal of three layers in a graph with an edge back to the
\* source.
BfsLayeringWitness ==
    /\ pc = "bfs"
    /\ done
    /\ Len(emitted) = 3
    /\ \E e \in EdgeRel : e[2] = source

\* C2: the sets a breadth-first traversal returns are non-empty and pairwise
\* disjoint and hold only nodes reachable from the source; there are at most
\* as many as the graph has nodes, and once a pull has returned None they
\* cover every node reachable from the source.  From a source of the graph,
\* with every edge targeting a node of the graph, no pull panics: each one
\* returns a set or None.
BfsPartition ==
    pc = "bfs" =>
        /\ WellFormed => ~fault
        /\ \A k \in 1 .. Len(emitted) : emitted[k] # {}
        /\ \A j, k \in 1 .. Len(emitted) :
               j < k => emitted[j] \cap emitted[k] = {}
        /\ \A k \in 1 .. Len(emitted) : emitted[k] \subseteq Closure({source})
        /\ Len(emitted) <= Len(nodes)
        /\ done => UNION EmittedSet = Closure({source})

\* A finished traversal of a graph with a self-loop, a duplicate edge and
\* a node the source does not reach.
BfsPartitionWitness ==
    /\ pc = "bfs"
    /\ done
    /\ \E e \in EdgeRel : e[1] = e[2]
    /\ Cardinality(EdgeRel) < Len(edgeLog)
    /\ Len(emitted) = 2
    /\ Len(nodes) = 3

\* C3: a depth-first traversal returns no node twice and only nodes reachable
\* from the source, at most as many as the graph has nodes; once a pull has
\* returned None it has returned every node reachable from the source.  From
\* a source of the graph, with every edge targeting a node of the graph, no
\* pull panics: each one returns a node or None.
DfsOnce ==
    pc = "dfs" =>
        /\ WellFormed => ~fault
        /\ \A j, k \in 1 .. Len(emitted) : j < k => emitted[j] # emitted[k]
        /\ EmittedSet \subseteq Closure({source})
        /\ Len(emitted) <= Len(nodes)
        /\ done => EmittedSet = Closure({source})

\* A finished traversal that popped and dropped visited nodes.
DfsOnceWitness ==
    /\ pc = "dfs"
    /\ done
    /\ discards >= 2
    /\ Len(emitted) = 2
    /\ Len(nodes) = 3

\* C4: when every path from the source to v passes through u, a depth-first
\* traversal returns u before v.
DfsDominatorFirst ==
    pc = "dfs" =>
        \A i, j \in 1 .. Len(emitted) :
            (emitted[i] # emitted[j] /\ Dominates(emitted[i], emitted[j]))
                => i < j

\* A traversal that has returned three nodes, the third reachable only
\* through the second, in a graph whose edges of different sources were
\* added interleaved.
DfsDominatorFirstWitness ==
    /\ pc = "dfs"
    /\ Len(emitted) = 3
    /\ Dominates(emitted[2], emitted[3])
    /\ Len(edgeLog) = 3
    /\ edgeLog[1].source = edgeLog[3].source
    /\ edgeLog[1].source # edgeLog[2].source

\* C5: successors(n) returns the targets of the add_edge calls with source n,
\* one item per call, the latest call first.
SuccessorsLatestFirst ==
    (ret.op = "successors" /\ ~fault) =>
        ret.val = TargetsLatestFirst(ret.arg[1], Len(edgeLog))

\* successors(n) has returned two different targets for a node whose edges
\* were added before and after an edge of another source.
SuccessorsLatestFirstWitness ==
    /\ ret.op = "successors"
    /\ Len(ret.val) = 2
    /\ ret.val[1] # ret.val[2]
    /\ Len(edgeLog) = 3
    /\ edgeLog[1].source = ret.arg[1]
    /\ edgeLog[2].source # ret.arg[1]
    /\ edgeLog[3].source = ret.arg[1]

\* C6: every index add_node has returned resolves to a node holding the value
\* passed to that call, and every index add_edge has returned resolves to the
\* edge as that call created it.
IndexStability ==
    /\ \A k \in 1 .. Len(nodeLog) :
           /\ InBounds(nodes, nodeLog[k].index)
           /\ node_value(nodes, nodeLog[k].index) = nodeLog[k].value
    /\ \A k \in 1 .. Len(edgeLog) :
           /\ InBounds(edges, edgeLog[k].index)
           /\ At(edges, edgeLog[k].index) = edgeLog[k].edge

\* Three nodes, two of them of different values, and two edges of one source
\* to different targets, one of them the last node: the second add_edge
\* rewrote the source's head after the first edge was created.
IndexStabilityWitness ==
    /\ Len(nodeLog) = 3
    /\ nodeLog[1].value # nodeLog[2].value
    /\ Len(edgeLog) = 2
    /\ edgeLog[1].source = edgeLog[2].source
    /\ edgeLog[1].target # edgeLog[2].target
    /\ edgeLog[1].target = 2 \/ edgeLog[2].target = 2

\* C7: the k-th add_node call returns NodeIndex k and the k-th add_edge call
\* that returns returns EdgeIndex k (k from 0); nodes() and edges() are as
\* long as the number of those calls and enumerate the indices 0, 1, ...
DenseIndices ==
    /\ \A k \in 1 .. Len(nodeLog) : nodeLog[k].index = k - 1
    /\ \A k \in 1 .. Len(edgeLog) : edgeLog[k].index = k - 1
    /\ Len(nodes_iter(nodes)) = Len(nodeLog)
    /\ Len(edges_iter(edges)) = Len(edgeLog)
    /\ \A k \in 1 .. Len(nodeLog) : nodes_iter(nodes)[k][1] = nodeLog[k].index
    /\ \A k \in 1 .. Len(edgeLog) : edges_iter(edges)[k] = edgeLog[k].index

\* Two nodes and two edges have been added, and a further add_edge call has
\* panicked.
DenseIndicesWitness ==
    /\ Len(nodeLog) = 2
    /\ Len(edgeLog) = 2
    /\ fault
    /\ ret.op = "add_edge"

InvalidSourceFaults ==
    [][(ret'.op = "add_edge" /\ ~InBounds(nodes, ret'.arg[1]))
          => (fault' /\ ret'.val = None /\ nodes' = nodes /\ edges' = edges)]_vars

\* add_edge has panicked on a graph that holds nodes and edges.
InvalidSourceFaultsWitness ==
    /\ fault
    /\ pc = "build"
    /\ ret.op = "add_edge"
    /\ ~InBounds(nodes, ret.arg[1])
    /\ Len(nodes) = 2
    /\ Len(edges) = 2

\* C10 as stated: no edge whose target is not a node index of the graph is
\* ever stored.
NoInvalidTargetStored ==
    \A k \in 1 .. Len(edges) : InBounds(nodes, edges[k].target)

\* C10 as the code has it: add_edge with a source in bounds never panics,
\* whatever the target; it appends the edge with the target as given, links it
\* to the source's previous head and returns its index.
TargetNotValidated ==
    [][(ret'.op = "add_edge" /\ ret' # ret /\ InBounds(nodes, ret'.arg[1]))
          => /\ ~fault'
             /\ ret'.val = Some(Len(edges))
             /\ edges' = Append(edges,
                                Edge(ret'.arg[2],
                                     At(nodes, ret'.arg[1]).first_outgoing_edge))]_vars

\* add_edge has returned for a target that is not a node index of the graph.
TargetNotValidatedWitness ==
    /\ ~fault
    /\ ret.op = "add_edge"
    /\ ret.val # None
    /\ ~InBounds(nodes, ret.arg[2])
    /\ At(edges, ret.val[1]).target = ret.arg[2]

\* C11: at every point of a traversal, size_hint reports the lower bound 0
\* and an upper bound, the graph's node count, that is at least the number of
\* items the traversal has returned; a finished traversal has returned all
\* its items, so the bound covers the whole lifetime.
SizeHintCovers ==
    /\ pc = "bfs" =>
           /\ bfs_size_hint(nodes).lower = 0
           /\ bfs_size_hint(nodes).upper = Some(Len(nodes))
           /\ Len(emitted) <= bfs_size_hint(nodes).upper[1]
    /\ pc = "dfs" =>
           /\ dfs_size_hint(nodes).lower = 0
           /\ dfs_size_hint(nodes).upper = Some(Len(nodes))
           /\ Len(emitted) <= dfs_size_hint(nodes).upper[1]

\* A finished depth-first traversal that returned as many items as the bound.
SizeHintCoversWitness ==
    /\ pc = "dfs"
    /\ done
    /\ Len(nodes) = 3
    /\ Len(emitted) = dfs_size_hint(nodes).upper[1]

\* The values that occur in the pairs given so far.
PairValues ==
    {input.pairs[k][1] : k \in 1 .. Len(input.pairs)}
        \cup {input.pairs[k][2] : k \in 1 .. Len(input.pairs)}

\* C12: a graph built by find-or-add alone holds every value asked for or
\* occurring in a pair in exactly one node, so asking again for a value adds
\* nothing; it holds one edge per pair, the k-th from the node of the pair's
\* first value to the node of its second.
FindOrAddIdempotent ==
    /\ ~fault
    /\ \A i, j \in 1 .. Len(nodes) : i < j => nodes[i].value # nodes[j].value
    /\ {nodes[i].value : i \in 1 .. Len(nodes)} = input.asked \cup PairValues
    /\ Len(nodes_iter(nodes)) = Cardinality(input.asked \cup PairValues)
    /\ Len(edges_iter(edges)) = Len(input.pairs)
    /\ Len(edgeLog) = Len(input.pairs)
    /\ \A k \in 1 .. Len(input.pairs) :
           /\ InBounds(nodes, edgeLog[k].source)
           /\ InBounds(nodes, edges[k].target)
           /\ node_value(nodes, edgeLog[k].source) = input.pairs[k][1]
           /\ node_value(nodes, edges[k].target) = input.pairs[k][2]

\* Three pairs, one given twice and one a self-pair, after a value was asked
\* for that the graph already held.
FindOrAddIdempotentWitness ==
    /\ Len(input.pairs) = 3
    /\ input.pairs[1] = input.pairs[2]
    /\ input.pairs[1][1] # input.pairs[1][2]
    /\ input.pairs[3][1] = input.pairs[3][2]
    /\ Len(nodes) = 2
    /\ ret.op = "find_or_add"
    /\ Len(nodeLog) = 2

\* The graph has one node and no edge, and a traversal was started from it.
SingleNodeTraversal ==
    /\ Len(nodes) = 1
    /\ edges = <<>>
    /\ source = 0
    /\ pc \in {"bfs", "dfs"}

\* C13: in a graph of one node and no edge, the first pull of bfs returns the
\* set of that node and the first pull of dfs returns that node; the next
\* pull returns None, and no pull panics.
SingleNodeOneItem ==
    [][SingleNodeTraversal =>
          /\ ~fault'
          /\ emitted = <<>> =>
                 /\ emitted' = <<IF pc = "bfs" THEN {0} ELSE 0>>
                 /\ ~done'
          /\ emitted # <<>> =>
                 /\ emitted' = emitted
                 /\ done']_vars

\* A finished breadth-first traversal of the one-node graph.
SingleNodeOneItemWitness ==
    /\ SingleNodeTraversal
    /\ pc = "bfs"
    /\ done
    /\ emitted = <<{0}>>

\* The targets of the add_edge calls with source n, earliest call first.
TargetsOldestFirst(n) ==
    LET latest == TargetsLatestFirst(n, Len(edgeLog))
    IN [k \in 1 .. Len(latest) |-> latest[Len(latest) + 1 - k]]

InSeq(x, seq) == \E k \in 1 .. Len(seq) : seq[k] = x

\* The pre-order of a recursive depth-first search that explores the edges of
\* a node in the order they were added and skips the nodes already in order.
RECURSIVE RecVisit(_, _)
RECURSIVE RecChildren(_, _)
RecVisit(n, order) ==
    IF InSeq(n, order) THEN order
    ELSE RecChildren(TargetsOldestFirst(n), Append(order, n))
RecChildren(targets, order) ==
    IF targets = <<>> THEN order
    ELSE RecChildren(Tail(targets), RecVisit(Head(targets), order))

IsPrefix(a, b) == Len(a) <= Len(b) /\ a = SubSeq(b, 1, Len(a))

\* C14: what a depth-first traversal has returned is a prefix of the pre-order
\* of the recursive search from the source that explores oldest edges first,
\* and the whole of it once a pull has returned None.
DfsIsRecursivePreorder ==
    pc = "dfs" =>
        /\ IsPrefix(emitted, RecVisit(source, <<>>))
        /\ done => emitted = RecVisit(source, <<>>)

\* A finished traversal from a source with edges to two other nodes, the
\* first of which has an edge of its own: the target of the older edge was
\* returned first.
DfsIsRecursivePreorderWitness ==
    /\ pc = "dfs"
    /\ done
    /\ Len(emitted) = 3
    /\ TargetsOldestFirst(source) = <<emitted[2], emitted[3]>>
    /\ TargetsOldestFirst(emitted[2]) # <<>>

\* The last pull returned node n, whose successors are all nodes of the graph
\* that are not visited.
JustEmitted(n) ==
    /\ pc = "dfs"
    /\ ~fault
    /\ ~done
    /\ emitted # <<>>
    /\ n = emitted[Len(emitted)]
    /\ TargetsOldestFirst(n) # <<>>
    /\ \A k \in 1 .. Len(TargetsOldestFirst(n)) :
           /\ InBounds(visited, TargetsOldestFirst(n)[k])
           /\ ~visited[TargetsOldestFirst(n)[k] + 1]

\* The top of the stack holds the successors of n in enumeration order
\* (latest edge first), the last of them on top.
PushedInEnumerationOrder(n) ==
    LET pushed == TargetsLatestFirst(n, Len(edgeLog))
    IN /\ Len(stack) >= Len(pushed)
       /\ SubSeq(stack, Len(stack) - Len(pushed) + 1, Len(stack)) = pushed

\* C15 as stated: after a pull has returned n, with n's successors pushed in
\* enumeration order and all unvisited, the next pull returns the target of
\* the edge added last from n.
DfsLatestEdgeNext ==
    [][\A n \in NodeIdx :
          JustEmitted(n) =>
              /\ PushedInEnumerationOrder(n)
              /\ emitted' = Append(emitted,
                                   TargetsLatestFirst(n, Len(edgeLog))[1])]_vars

\* C15 as the code has it: the successors are pushed in enumeration order,
\* latest edge first, so the target of the edge added first from n is on top
\* and the next pull returns it.
DfsOldestEdgeNext ==
    [][\A n \in NodeIdx :
          JustEmitted(n) =>
              /\ PushedInEnumerationOrder(n)
              /\ emitted' = Append(emitted, TargetsOldestFirst(n)[1])]_vars

\* A pull has returned the target of the source's oldest edge, right after
\* the source, whose two edges go to different unvisited nodes.
DfsOldestEdgeNextWitness ==
    /\ pc = "dfs"
    /\ ~fault
    /\ Len(emitted) = 2
    /\ Len(TargetsOldestFirst(source)) = 2
    /\ TargetsOldestFirst(source)[1] # TargetsOldestFirst(source)[2]
    /\ source \notin {TargetsOldestFirst(source)[1], TargetsOldestFirst(source)[2]}
    /\ emitted[2] = TargetsOldestFirst(source)[1]

\* The nodes whose visited flag is set.
Marked(vis) == {i \in 0 .. Len(vis) - 1 : vis[i + 1]}

\* C16: bfs starts with the queue <<{source}>> and no flag set.  A pull that
\* dequeues the set S and does not panic returns S, sets the flags of S and
\* of no other node, and enqueues the successors of S that are then unflagged
\* (so none of S itself) if there are any, and nothing otherwise.
BfsStep ==
    [][/\ (pc = "build" /\ pc' = "bfs") =>
              /\ queue' = <<{source'}>>
              /\ Len(visited') = Len(nodes)
              /\ Marked(visited') = {}
       /\ (pc = "bfs" /\ queue # <<>> /\ ~fault') =>
              LET S == Head(queue)
                  frontier == Succ(S) \ (Marked(visited) \cup S)
              IN /\ emitted' = Append(emitted, S)
                 /\ ~done'
                 /\ Len(visited') = Len(visited)
                 /\ Marked(visited') = Marked(visited) \cup S
                 /\ queue' = IF frontier # {}
                             THEN Append(Tail(queue), frontier)
                             ELSE Tail(queue)]_vars

\* The second pull has returned a set of two nodes and enqueued nothing,
\* although one of the two has an edge: it leads back to the source.
BfsStepWitness ==
    /\ pc = "bfs"
    /\ ~fault
    /\ ~done
    /\ Len(emitted) = 2
    /\ Cardinality(emitted[2]) = 2
    /\ queue = <<>>
    /\ \E e \in EdgeRel : e[1] \in emitted[2] /\ e[2] = source

\* C17: once a pull has reported the end of a traversal, the next pull
\* reports the end again, does not panic, emits nothing and leaves the
\* visited flags and the queue or stack as they are; the state it leaves is
\* again one where the end has been reported.
EndIsAbsorbing ==
    /\ (pc = "bfs" /\ done) =>
           LET r == bfs_next(nodes, edges, visited, queue)
           IN /\ queue = <<>>
              /\ ~r.panic
              /\ r.item = None
              /\ r.visited = visited
              /\ r.queue = queue
    /\ (pc = "dfs" /\ done) =>
           LET r == dfs_next(nodes, edges, visited, stack, 0)
           IN /\ stack = <<>>
              /\ ~r.panic
              /\ r.item = None
              /\ r.visited = visited
              /\ r.stack = stack

\* A bfs over three nodes has returned two sets and then reported the end.
EndIsAbsorbingWitness ==
    /\ pc = "bfs"
    /\ done
    /\ ~fault
    /\ Len(emitted) = 2
    /\ Marked(visited) = NodeIdx

\* The edge indices a walk from current_edge_index passes, cut off after
\* fuel edges.
RECURSIVE EdgeList(_, _)
EdgeList(current_edge_index, fuel) ==
    IF current_edge_index = None \/ fuel = 0 THEN <<>>
    ELSE <<current_edge_index[1]>>
             \o EdgeList(At(edges, current_edge_index[1]).next_outgoing_edge,
                         fuel - 1)

\* The outgoing-edge list of node n, as a sequence and as a set of indices.
OutgoingList(n) == EdgeList(At(nodes, n).first_outgoing_edge, Len(edges) + 1)

OutgoingSet(n) == {OutgoingList(n)[k] : k \in 1 .. Len(OutgoingList(n))}

\* C18: every edge's next_outgoing_edge is None or an index strictly smaller
\* than the edge's own, and every node's head is None or the index of an
\* edge; no edge is in two nodes' lists; a walk from any node's head ends
\* within Len(edges) items; and the successors a call has just returned are
\* what a fresh call returns.
SuccessorsTerminates ==
    /\ \A i \in 0 .. Len(edges) - 1 :
           LET link == At(edges, i).next_outgoing_edge
           IN link = None \/ link[1] \in 0 .. i - 1
    /\ \A n \in 0 .. Len(nodes) - 1 :
           LET head == At(nodes, n).first_outgoing_edge
           IN head = None \/ head[1] \in 0 .. Len(edges) - 1
    /\ \A n, m \in 0 .. Len(nodes) - 1 :
           n # m => OutgoingSet(n) \cap OutgoingSet(m) = {}
    /\ \A n \in 0 .. Len(nodes) - 1 :
           /\ Len(OutgoingList(n)) <= Len(edges)
           /\ Len(successors(nodes, edges, n)) = Len(OutgoingList(n))
    /\ (ret.op = "successors" /\ ~fault) =>
           /\ Len(ret.val) <= Len(edges)
           /\ ret.val = successors(nodes, edges, ret.arg[1])

\* Three edges of two nodes, pushed alternately, and successors has walked
\* the list of two.
SuccessorsTerminatesWitness ==
    /\ ~fault
    /\ Len(edgeLog) = 3
    /\ edgeLog[1].source = edgeLog[3].source
    /\ edgeLog[2].source # edgeLog[1].source
    /\ ret.op = "successors"
    /\ ret.arg[1] = edgeLog[1].source
    /\ Len(ret.val) = 2

\* C19: during a bfs the queue holds at most one set, and a queued set is
\* non-empty and holds no node whose visited flag is set.
BfsQueueInvariant ==
    pc = "bfs" =>
        /\ Len(queue) <= 1
        /\ \A k \in 1 .. Len(queue) :
               /\ queue[k] # {}
               /\ queue[k] \cap Marked(visited) = {}

\* After the first pull the queue holds one set of two nodes, both still
\* unflagged, while the source is flagged.
BfsQueueInvariantWitness ==
    /\ pc = "bfs"
    /\ ~fault
    /\ Len(emitted) = 1
    /\ Len(queue) = 1
    /\ Cardinality(queue[1]) = 2
    /\ Marked(visited) = {source}

\* C20: for a valid node n, the upper bound of the size_hint of successors(n)
\* is computed without underflow and is at least the number of items that
\* successors(n) yields.
SuccessorsSizeHintCovers ==
    (ret.op = "successors" /\ ~fault) =>
        LET hint == successors_size_hint(nodes)
        IN /\ Len(nodes) >= 1
           /\ hint.lower <= Len(ret.val)
           /\ hint.upper # None
           /\ Len(ret.val) <= hint.upper[1]

\* One node with a self-loop: successors yields one item and the reported
\* upper bound is 0.
SuccessorsSizeHintExceeded ==
    /\ ~fault
    /\ Len(nodes) = 1
    /\ ret.op = "successors"
    /\ ret.val = <<0>>
    /\ successors_size_hint(nodes).upper = Some(0)

====
